---- MODULE Spec2Model ----
(***************************************************************************)
(* Cloud Firestore security rules of the TBI website (firestore.rules) and *)
(* the contactSubmissions collection they guard.                           *)
(*                                                                         *)
(* A rules expression evaluates to true, false or an error (a field that   *)
(* is not there, a method applied to a value of the wrong type).  An       *)
(* `allow` statement grants a request only when its condition is true, and *)
(* a request is granted when any `allow` of any matching `match` block     *)
(* grants it.  For an update, request.resource.data is the document as it  *)
(* would be stored after the write.                                        *)
(*                                                                         *)
(* The module also holds the Storage rules and the React pages of the      *)
(* site: the admin mentors page, the admin events page and the home page.  *)
(* A handler that awaits is a sequence of steps, one up to each await; the *)
(* calls in flight are kept with the place each has reached.               *)
(***************************************************************************)
EXTENDS Integers, Sequences, FiniteSets, TLC

VARIABLES docs, last, requests

\* The admin mentors page: the mentors collection it reads, its React state
\* and the fetchMentors calls in flight.
VARIABLES mentorsDb, searchQuery, mentors, filteredMentors, isLoading, error,
          fetches

\* The rest of the mentors page: the create dialog, the expanded card, and
\* the onSubmit and handleDeleteMentor calls made, each with the toast it
\* has shown and the fetchMentors call it has started.
VARIABLES isSubmitting, isCreateDialogOpen, expandedMentor, submits, deletes

dialogVars == <<isSubmitting, isCreateDialogOpen, expandedMentor, submits, deletes>>

\* The admin events page: the events collection, the React state of
\* EventsPage, and its fetchEvents, onSubmit and handleDeleteEvent calls.
VARIABLES eventsDb, eventsPage, eventFetches, eventSubmits, eventDeletes

eventsVars == <<eventsDb, eventsPage, eventFetches, eventSubmits, eventDeletes>>

\* The home page: localStorage['applicantCampusStatus'], the React state of
\* HomePage, window.location.href, and the handleOpenApplicationForm calls.
VARIABLES localStorage, homePage, href, applyClicks

homeVars == <<localStorage, homePage, href, applyClicks>>

\* The page the browser shows.
VARIABLE route

fetchVars == <<mentorsDb, searchQuery, mentors, filteredMentors, isLoading, error,
               fetches>>

otherVars == <<route, eventsVars, homeVars>>

pageVars == <<fetchVars, dialogVars, otherVars>>

vars == <<docs, last, requests, pageVars>>

\* Number of requests a behaviour issues.
MaxRequests == 3

-----------------------------------------------------------------------------
(* Values of the rules language, tagged with their type.  A string is the  *)
(* sequence of its characters.                                             *)

StrV(s) == [t |-> "string", v |-> s]
IntV(n) == [t |-> "int", v |-> n]
BoolV(b) == [t |-> "bool", v |-> b]
MapV(f) == [t |-> "map", v |-> f]
ListV(s) == [t |-> "list", v |-> s]
Err == [t |-> "error", v |-> 0]

\* The three results of a condition.
T == "true"
F == "false"
E == "error"

B(b) == IF b THEN T ELSE F

\* a || b and a && b: an operand that raises an error does not hide an
\* operand that decides the result.
Or3(a, b) == IF a = T \/ b = T THEN T ELSE IF a = E \/ b = E THEN E ELSE F
And3(a, b) == IF a = F \/ b = F THEN F ELSE IF a = E \/ b = E THEN E ELSE T
Not3(a) == IF a = E THEN E ELSE IF a = T THEN F ELSE T

\* m.k : an error when m is no map or has no key k.
Field(m, k) == IF m.t = "map" /\ k \in DOMAIN m.v THEN m.v[k] ELSE Err

\* m.keys()
Keys(m) == IF m.t = "map" THEN ListV(DOMAIN m.v) ELSE Err

\* l.hasAny(ks), l.hasAll(ks), l.hasOnly(ks)
HasAny(l, ks) == IF l.t = "list" THEN B(l.v \cap ks # {}) ELSE E
HasAll(l, ks) == IF l.t = "list" THEN B(ks \subseteq l.v) ELSE E
HasOnly(l, ks) == IF l.t = "list" THEN B(l.v \subseteq ks) ELSE E

\* x is string, x is bool
IsString(x) == IF x.t = "error" THEN E ELSE B(x.t = "string")
IsBool(x) == IF x.t = "error" THEN E ELSE B(x.t = "bool")

\* x.size()
Size(x) ==
  IF x.t = "string" THEN IntV(Len(x.v))
  ELSE IF x.t = "map" THEN IntV(Cardinality(DOMAIN x.v))
  ELSE Err

\* x == y, x >= y, x > y
Eq(x, y) == IF x.t = "error" \/ y.t = "error" THEN E ELSE B(x.t = y.t /\ x.v = y.v)
Ge(x, y) == IF x.t = "int" /\ y.t = "int" THEN B(x.v >= y.v) ELSE E
Gt(x, y) == IF x.t = "int" /\ y.t = "int" THEN B(x.v > y.v) ELSE E

-----------------------------------------------------------------------------
(* s.matches(re): the whole string matches the regular expression.  The    *)
(* expressions of the rules use literal characters, '.' and '.*'.          *)

RECURSIVE MatchFrom(_, _, _, _)
MatchFrom(re, i, s, j) ==
  IF i > Len(re) THEN j > Len(s)
  ELSE IF re[i] = "." /\ i < Len(re) /\ re[i + 1] = "*"
    THEN \E k \in j..(Len(s) + 1) : MatchFrom(re, i + 2, s, k)
  ELSE IF j > Len(s) THEN FALSE
  ELSE IF re[i] = "." THEN MatchFrom(re, i + 1, s, j + 1)
  ELSE re[i] = s[j] /\ MatchFrom(re, i + 1, s, j + 1)

Matches(x, re) == IF x.t = "string" THEN B(MatchFrom(re, 1, x.v, 1)) ELSE E

-----------------------------------------------------------------------------
(* String literals of the rules.                                           *)

sAccepted == StrV(<<"a", "c", "c", "e", "p", "t", "e", "d">>)
sEmpty == StrV(<<>>)
reLinkedin == <<"h", "t", "t", "p", "s", ":", "/", "/", ".", "*", "l", "i", "n", "k", "e", "d", "i", "n", ".", "c", "o", "m", "/", ".", "*">>
reLinkedinIn == <<"h", "t", "t", "p", "s", ":", "/", "/", ".", "*", "l", "i", "n", "k", "e", "d", "i", "n", ".", "c", "o", "m", "/", "i", "n", "/", ".", "*">>

\* temporaryPassword.size() >= 6
MinPasswordLen == 6

-----------------------------------------------------------------------------
(* Helper functions for contactSubmissions rules.  `existingData` is the   *)
(* stored resource, `incomingRequest` the request; both carry the document *)
(* as the map `data`.                                                      *)

allowedFields ==
  {"name", "email", "status", "temporaryUserId", "temporaryPassword",
   "firstName", "lastName", "phone", "bio", "linkedin",
   "notificationPreferences", "onboardingProgress", "onboardingCompleted",
   "onboardingCompletedAt", "passwordUpdatedAt", "profileUpdatedAt",
   "submittedAt", "campusStatus", "companyName", "idea"}

isOnboardingFieldsOnly(incomingDoc) == HasOnly(Keys(incomingDoc), allowedFields)

passwordValid(incomingDoc) ==
  Or3(Not3(HasAny(Keys(incomingDoc), {"temporaryPassword"})),
      And3(IsString(Field(incomingDoc, "temporaryPassword")),
           Ge(Size(Field(incomingDoc, "temporaryPassword")), IntV(MinPasswordLen))))

\* profileValid checking the first name alone.
profileValidFirstNameOnly(incomingDoc) ==
  Or3(Not3(HasAny(Keys(incomingDoc), {"firstName", "lastName"})),
      And3(IsString(Field(incomingDoc, "firstName")),
           Gt(Size(Field(incomingDoc, "firstName")), IntV(0))))

profileValid(incomingDoc) ==
  Or3(Not3(HasAny(Keys(incomingDoc), {"firstName", "lastName"})),
      And3(And3(IsString(Field(incomingDoc, "firstName")),
                Gt(Size(Field(incomingDoc, "firstName")), IntV(0))),
           And3(IsString(Field(incomingDoc, "lastName")),
                Gt(Size(Field(incomingDoc, "lastName")), IntV(0)))))

linkedinValid(incomingDoc) ==
  Or3(Or3(Not3(HasAny(Keys(incomingDoc), {"linkedin"})),
          Eq(Field(incomingDoc, "linkedin"), sEmpty)),
      Or3(Matches(Field(incomingDoc, "linkedin"), reLinkedin),
          Matches(Field(incomingDoc, "linkedin"), reLinkedinIn)))

\* notificationValid without the type test on emailNotifications.
notificationValidKeyOnly(incomingDoc) ==
  Or3(Not3(HasAny(Keys(incomingDoc), {"notificationPreferences"})),
      HasAll(Keys(Field(incomingDoc, "notificationPreferences")),
             {"emailNotifications"}))

notificationValid(incomingDoc) ==
  Or3(Not3(HasAny(Keys(incomingDoc), {"notificationPreferences"})),
      And3(HasAll(Keys(Field(incomingDoc, "notificationPreferences")),
                  {"emailNotifications"}),
           IsBool(Field(Field(incomingDoc, "notificationPreferences"),
                        "emailNotifications"))))

isValidOnboardingData(incomingDoc) ==
  And3(And3(passwordValid(incomingDoc), profileValid(incomingDoc)),
       And3(linkedinValid(incomingDoc), notificationValid(incomingDoc)))

isValidOnboardingUpdate(existingData, incomingRequest) ==
  LET existingDoc == existingData.data
      incomingDoc == incomingRequest.resource.data
  IN And3(And3(And3(Eq(Field(existingDoc, "status"), sAccepted),
                    HasAll(Keys(incomingDoc), {"name", "email", "status"})),
               And3(Eq(Field(incomingDoc, "email"), Field(existingDoc, "email")),
                    Eq(Field(incomingDoc, "status"), Field(existingDoc, "status")))),
          And3(isOnboardingFieldsOnly(incomingDoc),
               isValidOnboardingData(incomingDoc)))

\* isStatusUpdate looking for 'status' alone.
isStatusUpdateStatusOnly(incomingRequest) ==
  HasAny(Keys(incomingRequest.resource.data), {"status"})

\* isStatusUpdate looking for 'processedByAdminAt' alone.
isStatusUpdateProcessedOnly(incomingRequest) ==
  HasAny(Keys(incomingRequest.resource.data), {"processedByAdminAt"})

isStatusUpdate(incomingRequest) ==
  HasAny(Keys(incomingRequest.resource.data), {"status", "processedByAdminAt"})

\* isCredentialAssignment without the comparison of status.
isCredentialAssignmentKeysOnly(incomingRequest) ==
  HasAny(Keys(incomingRequest.resource.data), {"temporaryUserId", "temporaryPassword"})

isCredentialAssignment(incomingRequest) ==
  And3(HasAny(Keys(incomingRequest.resource.data),
              {"temporaryUserId", "temporaryPassword"}),
       Eq(Field(incomingRequest.resource.data, "status"), sAccepted))

isAdminUpdate(incomingRequest) ==
  Or3(isStatusUpdate(incomingRequest), isCredentialAssignment(incomingRequest))

-----------------------------------------------------------------------------
(* The match blocks.  A path is the sequence of its segments below         *)
(* /databases/{database}/documents.  `resource` is the stored document,    *)
(* `request` the request with the document it would leave behind.          *)

ReadMethods == {"get", "list"}
WriteMethods == {"create", "update", "delete"}

\* match /contactSubmissions/{submissionId}
matchContactSubmissions(path) == Len(path) = 2 /\ path[1] = "contactSubmissions"

\* The update rule without the admin predicate.
contactSubmissionsUpdateOnboardingOnly(resource, request) ==
  isValidOnboardingUpdate(resource, request)

contactSubmissionsUpdate(resource, request) ==
  Or3(isValidOnboardingUpdate(resource, request), isAdminUpdate(request))

contactSubmissionsAllow(method, resource, request) ==
  IF method \in ReadMethods THEN B(request.auth)
  ELSE IF method = "create" THEN T
  ELSE IF method = "update" THEN contactSubmissionsUpdate(resource, request)
  ELSE F

\* match /admin_config/main_credentials
matchAdminConfig(path) == path = <<"admin_config", "main_credentials">>

adminConfigAllow(method, resource, request) ==
  IF method \in ReadMethods THEN T
  ELSE IF method \in WriteMethods THEN B(request.auth)
  ELSE F

\* match /offCampusApplications/{submissionId}
matchOffCampusApplications(path) == Len(path) = 2 /\ path[1] = "offCampusApplications"

offCampusApplicationsAllow(method, resource, request) ==
  IF method \in ReadMethods THEN B(request.auth)
  ELSE IF method = "create" THEN T
  ELSE IF method = "update" THEN T
  ELSE F

\* The collections whose blocks allow every read and every write.
openCollections ==
  {"evaluationCriteria", "events", "mentors", "startups", "mentorRequests",
   "notifications", "users", "submissions", "emailTokens", "evaluation_rounds",
   "analysisUploads", "analysis"}

matchOpenCollection(path) ==
  /\ Len(path) >= 2
  /\ path[1] \in openCollections
  /\ Len(path) = 2 \/ path[1] = "mentors"

openCollectionAllow(method, resource, request) ==
  IF method \in ReadMethods \cup WriteMethods THEN T ELSE F

\* match /{document=**}: any document path; allow read, write: if true
matchCatchAll(path) == Len(path) >= 1

catchAllAllow(method, resource, request) ==
  IF method \in ReadMethods \cup WriteMethods THEN T ELSE F

\* A request is granted when some allow of some matching block is true.
Granted(method, path, resource, request) ==
  \/ matchAdminConfig(path) /\ adminConfigAllow(method, resource, request) = T
  \/ matchContactSubmissions(path) /\ contactSubmissionsAllow(method, resource, request) = T
  \/ matchOffCampusApplications(path)
       /\ offCampusApplicationsAllow(method, resource, request) = T
  \/ matchOpenCollection(path) /\ openCollectionAllow(method, resource, request) = T
  \/ matchCatchAll(path) /\ catchAllAllow(method, resource, request) = T

-----------------------------------------------------------------------------
(* Documents and writes the clients issue.                                 *)

sPending == StrV(<<"p", "e", "n", "d", "i", "n", "g">>)
sArchived == StrV(<<"a", "r", "c", "h", "i", "v", "e", "d">>)
sRejected == StrV(<<"r", "e", "j", "e", "c", "t", "e", "d">>)
emailA == StrV(<<"a", "@", "x">>)
emailB == StrV(<<"b", "@", "x">>)
nameA == StrV(<<"A", "n", "n">>)
nameB == StrV(<<"B", "o", "b">>)
pwShort == StrV(<<"a", "b", "c", "d", "e">>)
pwLong == StrV(<<"a", "b", "c", "d", "e", "f">>)
urlExample == StrV(<<"h", "t", "t", "p", "s", ":", "/", "/", "e", "x", "a", "m", "p", "l", "e", ".", "c", "o", "m">>)
urlJdoe == StrV(<<"h", "t", "t", "p", "s", ":", "/", "/", "w", "w", "w", ".", "l", "i", "n", "k", "e", "d", "i", "n", ".", "c", "o", "m", "/", "i", "n", "/", "j", "d", "o", "e">>)
prefsBool == MapV("emailNotifications" :> BoolV(TRUE))
prefsString == MapV("emailNotifications" :> StrV(<<"y", "e", "s">>))
prefsNoEmail == MapV("push" :> BoolV(TRUE))

SubmissionPath == <<"contactSubmissions", "s1">>

\* Documents the application forms and older versions of them create.
Seeds ==
  { ("name" :> nameA) @@ ("email" :> emailA) @@ ("status" :> sPending),
    ("name" :> nameA) @@ ("email" :> emailA) @@ ("status" :> sAccepted),
    ("name" :> nameA) @@ ("email" :> emailA) @@ ("status" :> sRejected),
    ("name" :> nameA) @@ ("email" :> emailA),
    ("email" :> emailA) @@ ("status" :> sAccepted) }

Values(f) ==
  CASE f = "status" -> {sPending, sAccepted, sRejected, sArchived}
    [] f = "email" -> {emailA, emailB}
    [] f = "name" -> {nameB}
    [] f = "phone" -> {StrV(<<"5", "5", "5">>)}
    [] f = "temporaryUserId" -> {StrV(<<"u", "1">>)}
    [] f = "temporaryPassword" -> {pwShort, pwLong, IntV(123456)}
    [] f = "firstName" -> {sEmpty, StrV(<<"J">>)}
    [] f = "lastName" -> {sEmpty, StrV(<<"D">>)}
    [] f = "linkedin" -> {sEmpty, urlExample, urlJdoe, IntV(7)}
    [] f = "notificationPreferences" -> {prefsBool, prefsString, prefsNoEmail, BoolV(TRUE)}
    [] f = "processedByAdminAt" -> {IntV(1)}
    [] f = "role" -> {StrV(<<"a", "d", "m", "i", "n">>)}

PatchFields ==
  {"status", "email", "name", "phone", "temporaryUserId", "temporaryPassword",
   "firstName", "lastName", "linkedin", "notificationPreferences",
   "processedByAdminAt", "role"}

\* The fields one updateDoc call sets: one field, the two names of the
\* profile form, or the credentials issued on acceptance.
Patches ==
  UNION {{(f :> v) : v \in Values(f)} : f \in PatchFields}
  \cup {("firstName" :> StrV(<<"J">>)) @@ ("lastName" :> StrV(<<"D">>))}
  \cup {(("status" :> sAccepted) @@ ("temporaryUserId" :> StrV(<<"u", "1">>))
           @@ ("temporaryPassword" :> pw)) : pw \in {pwShort, pwLong}}

NoRequest ==
  [method |-> "none", path |-> <<>>, auth |-> FALSE, existed |-> FALSE,
   before |-> <<>>, data |-> <<>>, granted |-> FALSE]

\* null
Null == [t |-> "null", v |-> 0]

\* The mentors page as it is constructed (the useState defaults).
PageInit ==
  /\ mentors = <<>>
  /\ filteredMentors = <<>>
  /\ isLoading = TRUE
  /\ error = Null
  /\ searchQuery = <<>>
  /\ fetches = <<>>

\* The rest of the mentors page as it is constructed.
DialogInit ==
  /\ isSubmitting = FALSE
  /\ isCreateDialogOpen = FALSE
  /\ expandedMentor = Null
  /\ submits = <<>>
  /\ deletes = <<>>

\* defaultValues of the event form.
defaultValues == [title |-> <<>>, status |-> "draft"]

\* The events page as it is constructed.  searchQuery stays '' here, so
\* the filter effect copies events to filteredEvents.
EventsInit ==
  /\ eventsPage = [events |-> <<>>, filteredEvents |-> <<>>, loading |-> TRUE,
                   error |-> Null, searchQuery |-> <<>>,
                   isCreateDialogOpen |-> FALSE, isSubmitting |-> FALSE,
                   form |-> defaultValues]
  /\ eventFetches = <<>>
  /\ eventSubmits = <<>>
  /\ eventDeletes = <<>>

\* The home page as it is constructed.
HomeInit ==
  /\ homePage = [isApplicationFormOpen |-> FALSE, showMainContent |-> FALSE]
  /\ href = "/"
  /\ applyClicks = <<>>

Init ==
  /\ docs = <<>>
  /\ last = NoRequest
  /\ requests = 0
  /\ route = "/"
  /\ DialogInit
  /\ eventsDb = <<>>
  /\ EventsInit
  /\ localStorage = Null
  /\ HomeInit
  /\ mentorsDb = <<>>
  /\ PageInit

\* The store decides a write of `data` to the submission and applies it
\* whole when it is granted.
Write(method, auth, data) ==
  LET existed == "s1" \in DOMAIN docs
      before == IF existed THEN docs["s1"] ELSE <<>>
      resource == [data |-> MapV(before)]
      request == [auth |-> auth, resource |-> [data |-> MapV(data)]]
      granted == Granted(method, SubmissionPath, resource, request)
  IN /\ requests < MaxRequests
     /\ requests' = requests + 1
     /\ last' = [method |-> method, path |-> SubmissionPath, auth |-> auth,
                 existed |-> existed, before |-> before, data |-> data,
                 granted |-> granted]
     /\ docs' = IF granted THEN ("s1" :> data) @@ docs ELSE docs
     /\ UNCHANGED pageVars

\* setDoc / addDoc: creates the document, or replaces the stored one.
SetDoc(d, auth) ==
  Write(IF "s1" \in DOMAIN docs THEN "update" ELSE "create", auth, d)

\* updateDoc: sets the fields of `patch` on the stored document.
UpdateDoc(patch, auth) ==
  /\ "s1" \in DOMAIN docs
  /\ Write("update", auth, patch @@ docs["s1"])

\* deleteDoc on the stored submission.
DeleteDoc(auth) ==
  LET before == docs["s1"]
      granted == Granted("delete", SubmissionPath, [data |-> MapV(before)],
                         [auth |-> auth, resource |-> [data |-> MapV(<<>>)]])
  IN /\ "s1" \in DOMAIN docs
     /\ requests < MaxRequests
     /\ requests' = requests + 1
     /\ last' = [method |-> "delete", path |-> SubmissionPath, auth |-> auth,
                 existed |-> TRUE, before |-> before, data |-> <<>>,
                 granted |-> granted]
     /\ docs' = IF granted THEN [id \in DOMAIN docs \ {"s1"} |-> docs[id]] ELSE docs
     /\ UNCHANGED pageVars

\* getDoc / getDocs on the submissions: the store is left as it is.
ReadDoc(method, auth) ==
  LET existed == "s1" \in DOMAIN docs
      before == IF existed THEN docs["s1"] ELSE <<>>
      granted == Granted(method, SubmissionPath, [data |-> MapV(before)],
                         [auth |-> auth, resource |-> [data |-> MapV(<<>>)]])
  IN /\ requests < MaxRequests
     /\ requests' = requests + 1
     /\ last' = [method |-> method, path |-> SubmissionPath, auth |-> auth,
                 existed |-> existed, before |-> before, data |-> <<>>,
                 granted |-> granted]
     /\ UNCHANGED <<docs, pageVars>>

\* Paths of the other collections the clients address.
OtherPaths ==
  { <<"offCampusApplications", "a1">>, <<"admin_config", "main_credentials">>,
    <<"events", "e1">>, <<"scratch", "x1">> }

\* A request on a document of another collection: only the decision is
\* kept, the content of those documents is not.
Decide(method, path, auth) ==
  LET granted == Granted(method, path, [data |-> MapV(<<>>)],
                         [auth |-> auth, resource |-> [data |-> MapV(<<>>)]])
  IN /\ requests < MaxRequests
     /\ requests' = requests + 1
     /\ last' = [method |-> method, path |-> path, auth |-> auth,
                 existed |-> FALSE, before |-> <<>>, data |-> <<>>,
                 granted |-> granted]
     /\ UNCHANGED <<docs, pageVars>>

Next ==
  \/ \E d \in Seeds, auth \in BOOLEAN : SetDoc(d, auth)
  \/ \E patch \in Patches, auth \in BOOLEAN : UpdateDoc(patch, auth)
  \/ \E auth \in BOOLEAN : DeleteDoc(auth)
  \/ \E method \in ReadMethods, auth \in BOOLEAN : ReadDoc(method, auth)
  \/ \E method \in ReadMethods \cup WriteMethods, path \in OtherPaths, auth \in BOOLEAN :
       Decide(method, path, auth)

Spec == Init /\ [][Next]_vars

-----------------------------------------------------------------------------
(* The request decided last, as the rules see it.                          *)

LastResource == [data |-> MapV(last.before)]
LastRequest == [auth |-> last.auth, resource |-> [data |-> MapV(last.data)]]
IsUpdate == last.method = "update" /\ matchContactSubmissions(last.path)

Onboarding == isValidOnboardingUpdate(LastResource, LastRequest)
Admin == isAdminUpdate(LastRequest)
UpdateRule == contactSubmissionsUpdate(LastResource, LastRequest)

\* The fields the write adds, removes or gives another value.
Changed ==
  {f \in DOMAIN last.data \cup DOMAIN last.before :
     ~(f \in DOMAIN last.data /\ f \in DOMAIN last.before
       /\ last.data[f] = last.before[f])}
Sets(f, val) == f \in Changed /\ f \in DOMAIN last.data /\ last.data[f] = val

Has(doc, f, val) == f \in DOMAIN doc /\ doc[f] = val
CredentialFields == {"temporaryUserId", "temporaryPassword"}
CoreFields == {"email", "status"}
\* The onboarding predicate on the incoming document without the field f.
ValidWithout(f) ==
  isValidOnboardingUpdate(LastResource,
    [auth |-> last.auth,
     resource |-> [data |-> MapV([g \in DOMAIN last.data \ {f} |-> last.data[g]])]])

\* C1: an update of a contactSubmissions document is approved exactly when
\* the onboarding predicate or the admin predicate holds; an update for
\* which neither holds is denied.
C1_ApprovedIffPredicate ==
  IsUpdate => (last.granted <=> (Onboarding = T \/ Admin = T))

\* C2: when the existing status is not 'accepted', every update that changes
\* only onboarding fields is rejected by the update rule.
C2_NotAcceptedRejected ==
  (/\ IsUpdate
   /\ ~Has(last.before, "status", sAccepted)
   /\ Changed # {}
   /\ Changed \subseteq allowedFields \ (CoreFields \cup CredentialFields))
  => UpdateRule # T

\* C3: when the existing status is 'accepted', every update whose incoming
\* email or status differs from the existing one is rejected, so email and
\* status of an accepted submission keep their values.
C3_AcceptedCoreFrozen ==
  (IsUpdate /\ Has(last.before, "status", sAccepted))
  => /\ (Changed \cap CoreFields # {} => UpdateRule # T)
     /\ \A f \in CoreFields :
          f \in DOMAIN last.before => Has(docs["s1"], f, last.before[f])

\* C4: an update whose incoming document contains a field name outside the
\* allow-list is rejected.
C4_OutsideAllowListRejected ==
  (IsUpdate /\ ~(DOMAIN last.data \subseteq allowedFields)) => UpdateRule # T

\* C5: an update that sets temporaryPassword to a string shorter than 6 is
\* rejected, and one that sets it to a string of length 6 or more is
\* accepted when all other fields are valid.
C5_PasswordLength ==
  IsUpdate =>
    \A pw \in {pwShort, pwLong} :
      Sets("temporaryPassword", pw) =>
        IF Len(pw.v) < MinPasswordLen THEN UpdateRule # T
        ELSE ValidWithout("temporaryPassword") = T => UpdateRule = T

\* C6: an update that sets linkedin to "https://example.com" is rejected; one
\* that sets it to "https://www.linkedin.com/in/jdoe" or to the empty string
\* is accepted when the other fields are valid.
C6_LinkedinFormat ==
  IsUpdate =>
    /\ Sets("linkedin", urlExample) => UpdateRule # T
    /\ (Sets("linkedin", urlJdoe) \/ Sets("linkedin", sEmpty))
         /\ ValidWithout("linkedin") = T => UpdateRule = T

\* C7: an update whose incoming document has status 'accepted' together with
\* temporaryUserId and/or temporaryPassword is accepted by the update rule,
\* also when the existing document is not accepted and the update is no valid
\* onboarding update.
C7_CredentialIssuanceAccepted ==
  (/\ IsUpdate
   /\ Has(last.data, "status", sAccepted)
   /\ DOMAIN last.data \cap CredentialFields # {})
  => UpdateRule = T /\ last.granted

C7_Witness ==
  /\ IsUpdate
  /\ Has(last.data, "status", sAccepted)
  /\ DOMAIN last.data \cap CredentialFields # {}
  /\ ~Has(last.before, "status", sAccepted)
  /\ Onboarding # T
  /\ UpdateRule = T
  /\ docs["s1"] = last.data

\* The seven conditions of the onboarding contract, on the existing and the
\* incoming document.
Unchanged(f) ==
  /\ f \in DOMAIN last.data <=> f \in DOMAIN last.before
  /\ f \in DOMAIN last.data => last.data[f] = last.before[f]
IsNonEmptyString(doc, f) == f \in DOMAIN doc /\ doc[f].t = "string" /\ Len(doc[f].v) > 0
SevenConditions ==
  LET inc == last.data IN
  /\ Has(last.before, "status", sAccepted)
  /\ DOMAIN inc \subseteq allowedFields
  /\ Unchanged("email") /\ Unchanged("status")
  /\ "temporaryPassword" \in DOMAIN inc =>
       inc["temporaryPassword"].t = "string"
       /\ Len(inc["temporaryPassword"].v) >= MinPasswordLen
  /\ DOMAIN inc \cap {"firstName", "lastName"} # {} =>
       IsNonEmptyString(inc, "firstName") /\ IsNonEmptyString(inc, "lastName")
  /\ "linkedin" \in DOMAIN inc =>
       /\ inc["linkedin"].t = "string"
       /\ \/ inc["linkedin"].v = <<>>
          \/ MatchFrom(reLinkedin, 1, inc["linkedin"].v, 1)
          \/ MatchFrom(reLinkedinIn, 1, inc["linkedin"].v, 1)
  /\ "notificationPreferences" \in DOMAIN inc =>
       /\ inc["notificationPreferences"].t = "map"
       /\ "emailNotifications" \in DOMAIN inc["notificationPreferences"].v
       /\ inc["notificationPreferences"].v["emailNotifications"].t = "bool"

\* C8 (as claimed): isValidOnboardingUpdate is true exactly when the seven
\* conditions hold; no further condition, such as a 'name' field, is required.
C8_SevenConditionsOnly == IsUpdate => (Onboarding = T <=> SevenConditions)

\* C8 (amended): isValidOnboardingUpdate is true exactly when the seven
\* conditions hold and the incoming document has the fields name, email and
\* status.
C8_SevenConditionsAndCoreKeys ==
  IsUpdate =>
    (Onboarding = T <=>
       SevenConditions /\ {"name", "email", "status"} \subseteq DOMAIN last.data)

C8_Witness ==
  /\ IsUpdate
  /\ Onboarding = T
  /\ Changed \cap {"firstName", "linkedin", "notificationPreferences"} # {}

\* C9: isAdminUpdate is true exactly when the incoming field set contains
\* 'status' or 'processedByAdminAt', or contains 'temporaryUserId' or
\* 'temporaryPassword' with status equal to 'accepted'.
C9_AdminUpdateExact ==
  IsUpdate =>
    (Admin = T <=>
       \/ DOMAIN last.data \cap {"status", "processedByAdminAt"} # {}
       \/ /\ DOMAIN last.data \cap CredentialFields # {}
          /\ Has(last.data, "status", sAccepted))

C9_Witness ==
  /\ IsUpdate
  /\ Admin = T
  /\ "status" \notin DOMAIN last.data
  /\ "processedByAdminAt" \in DOMAIN last.data

-----------------------------------------------------------------------------
(* Relations between the predicates of the update rule.                    *)

StatusUpdate == isStatusUpdate(LastRequest)
CredentialAssignment == isCredentialAssignment(LastRequest)

\* C21: every update isValidOnboardingUpdate approves is approved by
\* isAdminUpdate too, so the update rule of contactSubmissions approves
\* exactly the updates isAdminUpdate approves.
C21_OnboardingImpliesAdmin ==
  IsUpdate =>
    /\ Onboarding = T => Admin = T
    /\ UpdateRule = T <=> Admin = T

C21_Witness ==
  /\ IsUpdate
  /\ Onboarding = T
  /\ Admin = T
  /\ "processedByAdminAt" \notin DOMAIN last.data
  /\ DOMAIN last.data \cap CredentialFields = {}

\* C22: isCredentialAssignment implies isStatusUpdate, so isAdminUpdate is
\* true exactly when the incoming field set contains 'status' or
\* 'processedByAdminAt'.
C22_CredentialDisjunctRedundant ==
  IsUpdate =>
    /\ CredentialAssignment = T => StatusUpdate = T
    /\ Admin = T <=> DOMAIN last.data \cap {"status", "processedByAdminAt"} # {}

C22_Witness ==
  /\ IsUpdate
  /\ CredentialAssignment = T
  /\ StatusUpdate = T
  /\ Admin = T

-----------------------------------------------------------------------------
(* Collection gates.                                                       *)

IsRequest == last.method # "none"
IsRead == last.method \in ReadMethods
IsWrite == last.method \in WriteMethods
OnSubmissions ==
  IsRequest /\ last.path[1] \in {"contactSubmissions", "offCampusApplications"}
OnAdminConfig == IsRequest /\ matchAdminConfig(last.path)

\* C11: a read of a contactSubmissions or offCampusApplications document by
\* an unauthenticated client is denied.
C11_UnauthenticatedReadDenied ==
  (OnSubmissions /\ IsRead /\ ~last.auth) => ~last.granted

\* C12: admin_config/main_credentials can be read by any client, and every
\* write to it by an unauthenticated client is denied.
C12_AdminConfigWriteNeedsAuth ==
  OnAdminConfig =>
    /\ IsRead => last.granted
    /\ (IsWrite /\ ~last.auth) => ~last.granted

\* The condition of the block declared for the path, if one is.
Declared(path) ==
  \/ matchAdminConfig(path)
  \/ matchContactSubmissions(path)
  \/ matchOffCampusApplications(path)
  \/ matchOpenCollection(path)
OwnAllow(method, path, resource, request) ==
  IF matchAdminConfig(path) THEN adminConfigAllow(method, resource, request)
  ELSE IF matchContactSubmissions(path)
    THEN contactSubmissionsAllow(method, resource, request)
  ELSE IF matchOffCampusApplications(path)
    THEN offCampusApplicationsAllow(method, resource, request)
  ELSE openCollectionAllow(method, resource, request)

\* C13: the catch-all rule grants read and write only on paths no other
\* block declares; on a path with its own block the decision is the one of
\* that block's conditions.
C13_CatchAllOnlyUndeclared ==
  IsRequest =>
    IF Declared(last.path)
      THEN last.granted <=>
             OwnAllow(last.method, last.path, LastResource, LastRequest) = T
      ELSE last.granted

\* C14: no delete of a contactSubmissions or offCampusApplications document
\* is allowed, so a submission that was created is still present.
C14_NoDelete ==
  (OnSubmissions /\ last.method = "delete") =>
    /\ ~last.granted
    /\ (matchContactSubmissions(last.path) /\ last.existed) => "s1" \in DOMAIN docs

\* C15: the status of a stored contactSubmissions document is one of
\* 'pending', 'accepted', 'rejected'.
C15_StatusEnum ==
  ("s1" \in DOMAIN docs /\ "status" \in DOMAIN docs["s1"]) =>
    docs["s1"]["status"] \in {sPending, sAccepted, sRejected}

\* C16: no update of a contactSubmissions document issued by an
\* unauthenticated client is approved by way of isAdminUpdate.
C16_AdminUpdateNeedsAuth ==
  (IsUpdate /\ ~last.auth) => ~(Admin = T /\ last.granted)

\* C18: if firstName or lastName is present in the incoming document, the
\* onboarding predicate holds only if both are non-empty strings.
C18_BothNamesRequired ==
  (IsUpdate /\ DOMAIN last.data \cap {"firstName", "lastName"} # {}
     /\ Onboarding = T)
  => (IsNonEmptyString(last.data, "firstName")
      /\ IsNonEmptyString(last.data, "lastName"))

C18_Witness ==
  /\ IsUpdate
  /\ Onboarding = T
  /\ {"firstName", "lastName"} \subseteq Changed
  /\ docs["s1"] = last.data

\* C19: if notificationPreferences is present in the incoming document, the
\* onboarding predicate holds only if it has the key emailNotifications with
\* a boolean value; when it is absent the constraint imposes nothing.
C19_NotificationPreferences ==
  IsUpdate =>
    IF "notificationPreferences" \in DOMAIN last.data
      THEN Onboarding = T =>
             LET np == last.data["notificationPreferences"] IN
             /\ np.t = "map"
             /\ "emailNotifications" \in DOMAIN np.v
             /\ np.v["emailNotifications"].t = "bool"
      ELSE notificationValid(MapV(last.data)) = T

C19_Witness ==
  /\ IsUpdate
  /\ Onboarding = T
  /\ "notificationPreferences" \in Changed
  /\ "notificationPreferences" \in DOMAIN last.data

-----------------------------------------------------------------------------
(* Cloud Storage rules (service firebase.storage).  An object path is the  *)
(* sequence of its segments below /b/{bucket}/o; {allPaths=**} stands for  *)
(* any number of segments.                                                 *)

\* Longest object path requested, and number of object requests issued.
MaxPathLen == 2
MaxObjectRequests == 1

matchMentorProfilePics(path) == Len(path) >= 1 /\ path[1] = "mentor-profile-pics"
matchUserProfilePics(path) == Len(path) >= 1 /\ path[1] = "user-profile-pics"
matchStartupImages(path) == Len(path) >= 1 /\ path[1] = "startup-images"
matchEventImages(path) == Len(path) >= 1 /\ path[1] = "event-images"
matchAllPaths(path) == Len(path) >= 0

\* allow read, write: if true
uploadsAllow(method) == IF method \in ReadMethods \cup WriteMethods THEN T ELSE F
\* allow read, write: if false
defaultDenyAllow(method) == F

\* Every matching block has to allow.
StorageGrantedAllBlocks(method, path) ==
  /\ matchMentorProfilePics(path) => uploadsAllow(method) = T
  /\ matchUserProfilePics(path) => uploadsAllow(method) = T
  /\ matchStartupImages(path) => uploadsAllow(method) = T
  /\ matchEventImages(path) => uploadsAllow(method) = T
  /\ matchAllPaths(path) => defaultDenyAllow(method) = T

StorageGranted(method, path) ==
  \/ matchMentorProfilePics(path) /\ uploadsAllow(method) = T
  \/ matchUserProfilePics(path) /\ uploadsAllow(method) = T
  \/ matchStartupImages(path) /\ uploadsAllow(method) = T
  \/ matchEventImages(path) /\ uploadsAllow(method) = T
  \/ matchAllPaths(path) /\ defaultDenyAllow(method) = T

StorageSegments ==
  {"mentor-profile-pics", "user-profile-pics", "startup-images", "event-images",
   "a.png"}
ObjectPaths == UNION {[1..n -> StorageSegments] : n \in 1..MaxPathLen}
BucketPrefix == <<"b", "bucket", "o">>

\* A read or write of an object: only the decision is kept.
StorageRequest(method, path, auth) ==
  /\ requests < MaxObjectRequests
  /\ requests' = requests + 1
  /\ last' = [method |-> method, path |-> BucketPrefix \o path, auth |-> auth,
              existed |-> FALSE, before |-> <<>>, data |-> <<>>,
              granted |-> StorageGranted(method, path)]
  /\ UNCHANGED <<docs, pageVars>>

NextStorage ==
  \E method \in ReadMethods \cup WriteMethods, path \in ObjectPaths, auth \in BOOLEAN :
    StorageRequest(method, path, auth)

SpecStorage == Init /\ [][NextStorage]_vars

IsStorageRequest ==
  Len(last.path) > 3 /\ SubSeq(last.path, 1, 3) = BucketPrefix
UploadFolders ==
  {"mentor-profile-pics", "user-profile-pics", "startup-images", "event-images"}

\* C20: every read and write of an object outside the four upload folders
\* is denied, and every read and write under them is allowed although the
\* default-deny block matches them too.
C20_StorageFoldersOnly ==
  IsStorageRequest => (last.granted <=> last.path[4] \in UploadFolders)

C20_Witness ==
  /\ IsStorageRequest
  /\ last.path[4] = "event-images"
  /\ Len(last.path) > 4
  /\ last.method = "create"
  /\ last.granted

-----------------------------------------------------------------------------
(* The admin mentors page (app/admin/mentors/page.tsx): fetchMentors.      *)

\* Mentor documents in a query result, and fetchMentors calls started.
MaxMentors == 2
MaxFetches == 2

\* undefined: the value of a field a document does not have.
Undefined == [t |-> "undefined", v |-> 0]
Get(data, f) == IF f \in DOMAIN data THEN data[f] ELSE Undefined

\* a || b of JavaScript: a when it is truthy, else b.
Truthy(x) ==
  CASE x.t = "string" -> Len(x.v) > 0
    [] x.t = "int" -> x.v # 0
    [] x.t = "bool" -> x.v
    [] x.t \in {"undefined", "null"} -> FALSE
    [] OTHER -> TRUE
JsOr(a, b) == IF Truthy(a) THEN a ELSE b

\* s.toLowerCase() and s.includes(q), on sequences of characters.
UpperCase == <<"A", "B", "C", "D", "E", "F", "G", "H", "I", "J", "K", "L", "M",
               "N", "O", "P", "Q", "R", "S", "T", "U", "V", "W", "X", "Y", "Z">>
LowerCase == <<"a", "b", "c", "d", "e", "f", "g", "h", "i", "j", "k", "l", "m",
               "n", "o", "p", "q", "r", "s", "t", "u", "v", "w", "x", "y", "z">>
ToLowerCase(s) ==
  [i \in 1..Len(s) |->
     IF \E k \in 1..26 : UpperCase[k] = s[i]
       THEN LowerCase[CHOOSE k \in 1..26 : UpperCase[k] = s[i]]
       ELSE s[i]]
Includes(s, q) == \E i \in 0..(Len(s) - Len(q)) : SubSeq(s, i + 1, i + Len(q)) = q

filterMentors(mentorsList, query) ==
  IF query = <<>> THEN mentorsList
  ELSE LET lowercasedQuery == ToLowerCase(query)
           Keep(mentor) ==
             \/ Includes(ToLowerCase(mentor.name.v), lowercasedQuery)
             \/ Includes(ToLowerCase(mentor.designation.v), lowercasedQuery)
             \/ Includes(ToLowerCase(mentor.expertise.v), lowercasedQuery)
             \/ Includes(ToLowerCase(mentor.email.v), lowercasedQuery)
       IN SelectSeq(mentorsList, Keep)

\* The list entry of a mentor whose profile/details document exists.
MentorFromProfile(id, mentorData, profileData) ==
  [id |-> id,
   name |-> JsOr(Get(profileData, "name"), JsOr(Get(mentorData, "name"), sEmpty)),
   designation |-> JsOr(Get(profileData, "designation"), sEmpty),
   expertise |-> JsOr(Get(profileData, "expertise"), sEmpty),
   description |->
     JsOr(Get(profileData, "description"), JsOr(Get(profileData, "bio"), sEmpty)),
   profilePictureUrl |->
     JsOr(Get(profileData, "profilePictureUrl"),
          JsOr(Get(profileData, "profilePicture"), sEmpty)),
   linkedinUrl |->
     JsOr(Get(profileData, "linkedinUrl"), JsOr(Get(profileData, "linkedin"), sEmpty)),
   email |-> JsOr(Get(mentorData, "email"), JsOr(Get(profileData, "email"), sEmpty)),
   createdAt |-> JsOr(Get(mentorData, "createdAt"), Get(profileData, "createdAt"))]

\* The legacy entry with the description read from `bio`.
MentorFromLegacyBio(id, mentorData) ==
  [id |-> id,
   name |-> JsOr(Get(mentorData, "name"), sEmpty),
   designation |-> JsOr(Get(mentorData, "designation"), sEmpty),
   expertise |-> JsOr(Get(mentorData, "expertise"), sEmpty),
   description |-> JsOr(Get(mentorData, "bio"), sEmpty),
   profilePictureUrl |-> JsOr(Get(mentorData, "profilePictureUrl"), sEmpty),
   linkedinUrl |-> JsOr(Get(mentorData, "linkedinUrl"), sEmpty),
   email |-> JsOr(Get(mentorData, "email"), sEmpty),
   createdAt |-> Get(mentorData, "createdAt")]

\* The list entry of a mentor without the profile subcollection (legacy).
MentorFromLegacy(id, mentorData) ==
  [id |-> id,
   name |-> JsOr(Get(mentorData, "name"), sEmpty),
   designation |-> JsOr(Get(mentorData, "designation"), sEmpty),
   expertise |-> JsOr(Get(mentorData, "expertise"), sEmpty),
   description |-> JsOr(Get(mentorData, "description"), sEmpty),
   profilePictureUrl |-> JsOr(Get(mentorData, "profilePictureUrl"), sEmpty),
   linkedinUrl |-> JsOr(Get(mentorData, "linkedinUrl"), sEmpty),
   email |-> JsOr(Get(mentorData, "email"), sEmpty),
   createdAt |-> Get(mentorData, "createdAt")]

\* The messages setError receives.
LoadError(code) ==
  IF code = "permission-denied"
    THEN "Failed to load mentors: Missing or insufficient Firestore permissions. "
         \o "Please check your Firestore security rules for the 'mentors' "
         \o "collection to allow reads."
    ELSE "Failed to load mentors. " \o code

\* Mentor documents: data of the top-level document, and the
\* profile/details document when it exists.
MentorDocs ==
  { [id |-> "m1",
     data |-> ("name" :> StrV(<<"A", "d", "a">>)) @@ ("designation" :> StrV(<<"C", "T", "O">>))
              @@ ("expertise" :> StrV(<<"M", "L">>)) @@ ("description" :> StrV(<<"G", "u", "i", "d", "e", "s">>))
              @@ ("profilePictureUrl" :> StrV(<<"/", "a", ".", "p", "n", "g">>))
              @@ ("linkedinUrl" :> StrV(<<"h", "t", "t", "p", "s", ":", "/", "/", "l", "i", "n", "k", "e", "d", "i", "n", ".", "c", "o", "m", "/", "i", "n", "/", "a">>)) @@ ("email" :> StrV(<<"a", "d", "a", "@", "x">>))
              @@ ("createdAt" :> IntV(4)),
     profile |-> [exists |-> FALSE, data |-> <<>>]],
    [id |-> "m2",
     data |-> ("email" :> StrV(<<"b", "e", "n", "@", "x">>)) @@ ("name" :> sEmpty) @@ ("createdAt" :> IntV(3)),
     profile |-> [exists |-> FALSE, data |-> <<>>]],
    [id |-> "m3",
     data |-> ("email" :> StrV(<<"b", "o", "@", "x">>)) @@ ("createdAt" :> IntV(2)),
     profile |-> [exists |-> TRUE,
                  data |-> ("name" :> StrV(<<"B", "o">>)) @@ ("designation" :> StrV(<<"C", "E", "O">>))
                           @@ ("expertise" :> StrV(<<"A", "I">>)) @@ ("bio" :> StrV(<<"B", "u", "i", "l", "d", "s">>))
                           @@ ("linkedin" :> StrV(<<"h", "t", "t", "p", "s", ":", "/", "/", "l", "i", "n", "k", "e", "d", "i", "n", ".", "c", "o", "m", "/", "i", "n", "/", "a">>))]],
    [id |-> "m4",
     data |-> ("name" :> StrV(<<"C", "y">>)) @@ ("createdAt" :> IntV(1)),
     profile |-> [exists |-> TRUE, data |-> ("email" :> StrV(<<"c", "y", "@", "x">>))]] }

\* Query results: mentors in the order of the query, no document twice.
MentorLists ==
  {l \in UNION {[1..n -> MentorDocs] : n \in 0..MaxMentors} :
     \A i, j \in 1..Len(l) : i # j => l[i].id # l[j].id}

InitMentors ==
  /\ docs = <<>>
  /\ last = NoRequest
  /\ requests = 0
  /\ mentorsDb \in MentorLists
  /\ PageInit
  /\ route = "/admin/mentors"
  /\ DialogInit
  /\ eventsDb = <<>>
  /\ EventsInit
  /\ localStorage = Null
  /\ HomeInit

\* onSubmit and handleDeleteMentor calls a behaviour makes, each.
MaxCalls == 1

\* Server actions awaited: each may call fetchMentors when it returns.
PendingActions ==
  Cardinality({k \in DOMAIN submits : submits[k].pc = "createMentorAction"})
  + Cardinality({k \in DOMAIN deletes : deletes[k].pc = "deleteMentorAction"})

\* A call of fetchMentors may start: the calls started and those the awaited
\* server actions may start stay within MaxFetches.
RoomForFetch == Len(fetches) + PendingActions < MaxFetches

\* fetchMentors() up to the await of getDocs.
CallFetchMentors ==
  /\ isLoading' = TRUE
  /\ error' = Null
  /\ fetches' = Append(fetches, [pc |-> "getDocs", snap |-> <<>>, i |-> 0,
                                 fetchedMentors |-> <<>>])

\* fetchMentors is called on mount or by a Refresh button.
fetchMentors ==
  /\ route = "/admin/mentors"
  /\ RoomForFetch
  /\ CallFetchMentors
  /\ UNCHANGED <<dialogVars, otherVars>>
  /\ UNCHANGED <<docs, last, requests, mentorsDb, searchQuery, mentors, filteredMentors>>

\* The end of the try block and the finally block; the effect on
\* [searchQuery, mentors] then filters the new list.
FetchCompletes(k, fetchedMentors) ==
  /\ mentors' = fetchedMentors
  /\ filteredMentors' = filterMentors(fetchedMentors, searchQuery)
  /\ isLoading' = FALSE
  /\ fetches' = [fetches EXCEPT ![k].pc = "done", ![k].fetchedMentors = fetchedMentors]
  /\ UNCHANGED <<dialogVars, otherVars>>
  /\ UNCHANGED <<docs, last, requests, mentorsDb, searchQuery, error>>

\* The catch block and the finally block.
FetchFails(k, code) ==
  /\ error' = StrV(LoadError(code))
  /\ isLoading' = FALSE
  /\ fetches' = [fetches EXCEPT ![k].pc = "failed"]
  /\ UNCHANGED <<dialogVars, otherVars>>
  /\ UNCHANGED <<docs, last, requests, mentorsDb, searchQuery, mentors, filteredMentors>>

\* getDocs resolves with the query snapshot.
GetDocsResolves(k) ==
  /\ route = "/admin/mentors"
  /\ k \in DOMAIN fetches
  /\ fetches[k].pc = "getDocs"
  /\ IF mentorsDb = <<>>
       THEN FetchCompletes(k, <<>>)
       ELSE /\ fetches' = [fetches EXCEPT ![k].pc = "getDoc", ![k].snap = mentorsDb,
                                          ![k].i = 1]
            /\ UNCHANGED <<dialogVars, otherVars>>
            /\ UNCHANGED <<docs, last, requests, mentorsDb, searchQuery, mentors,
                           filteredMentors, isLoading, error>>

\* getDoc of profile/details resolves for the mentor the loop is at.
GetDocResolves(k) ==
  /\ route = "/admin/mentors"
  /\ k \in DOMAIN fetches
  /\ fetches[k].pc = "getDoc"
  /\ LET f == fetches[k]
         mentorDoc == f.snap[f.i]
         entry == IF mentorDoc.profile.exists
                    THEN MentorFromProfile(mentorDoc.id, mentorDoc.data,
                                           mentorDoc.profile.data)
                    ELSE MentorFromLegacy(mentorDoc.id, mentorDoc.data)
         fetchedMentors == Append(f.fetchedMentors, entry)
     IN IF f.i = Len(f.snap)
          THEN FetchCompletes(k, fetchedMentors)
          ELSE /\ fetches' = [fetches EXCEPT ![k].i = f.i + 1,
                                             ![k].fetchedMentors = fetchedMentors]
               /\ UNCHANGED <<dialogVars, otherVars>>
               /\ UNCHANGED <<docs, last, requests, mentorsDb, searchQuery, mentors,
                              filteredMentors, isLoading, error>>

\* getDocs or getDoc rejects.
AwaitRejects(k, code) ==
  /\ route = "/admin/mentors"
  /\ k \in DOMAIN fetches
  /\ fetches[k].pc \in {"getDocs", "getDoc"}
  /\ FetchFails(k, code)

\* The search box: setSearchQuery, and the effect that filters the list.
SetSearchQuery(q) ==
  /\ route = "/admin/mentors"
  /\ q # searchQuery
  /\ searchQuery' = q
  /\ filteredMentors' = filterMentors(mentors, q)
  /\ UNCHANGED <<dialogVars, otherVars>>
  /\ UNCHANGED <<docs, last, requests, mentorsDb, mentors, isLoading, error, fetches>>

NextMentors ==
  \/ fetchMentors
  \/ \E k \in 1..MaxFetches : GetDocsResolves(k)
  \/ \E k \in 1..MaxFetches : GetDocResolves(k)
  \/ \E k \in 1..MaxFetches, code \in {"permission-denied", "unavailable"} :
       AwaitRejects(k, code)
  \/ \E q \in {<<>>, <<"a">>} : SetSearchQuery(q)

SpecMentors == InitMentors /\ [][NextMentors]_vars

\* What the top-level document gives for a field: its value, or the empty
\* string when the field is absent or empty.
TopLevel(mentorDoc, f) ==
  IF f \in DOMAIN mentorDoc.data /\ mentorDoc.data[f] # sEmpty
    THEN mentorDoc.data[f] ELSE sEmpty
DisplayFields ==
  {"name", "designation", "expertise", "description", "profilePictureUrl",
   "linkedinUrl", "email"}

\* C17: fetchMentors produces one list entry per mentor document of the
\* query, in query order; for a mentor without profile/details the entry's
\* display fields are those of the top-level document, "" when absent.
C17_OneEntryPerMentor ==
  \A k \in DOMAIN fetches :
    fetches[k].pc = "done" =>
      LET f == fetches[k] IN
      /\ Len(f.fetchedMentors) = Len(f.snap)
      /\ \A j \in 1..Len(f.snap) :
           /\ f.fetchedMentors[j].id = f.snap[j].id
           /\ ~f.snap[j].profile.exists =>
                \A fld \in DisplayFields :
                  f.fetchedMentors[j][fld] = TopLevel(f.snap[j], fld)

C17_Witness ==
  \E k \in DOMAIN fetches :
    /\ fetches[k].pc = "done"
    /\ Len(fetches[k].snap) = 2
    /\ fetches[k].snap[1].id = "m3"
    /\ fetches[k].snap[2].id = "m2"
    /\ mentors = fetches[k].fetchedMentors
    /\ mentors[2].designation = sEmpty
    /\ ~isLoading

-----------------------------------------------------------------------------
(* The admin mentors page: the create dialog, deletion, the expanded card. *)
(* createMentorAction and deleteMentorAction are server actions: each      *)
(* returns {success: true}, returns {success: false}, or throws.           *)

Outcomes == {"success", "failure", "thrown"}

sDELETE == StrV(<<"D", "E", "L", "E", "T", "E">>)

\* What prompt() returns: null when dismissed, else the text typed.
PromptAnswers == {Null, sDELETE, StrV(<<"d", "e", "l", "e", "t", "e">>)}

\* Ids the server gives to the mentors created.
NewMentorIds == <<"n1", "n2", "n3">>

\* The mentor createMentorAction stores for the k-th submission.
NewMentorDoc(k) ==
  [id |-> NewMentorIds[k],
   data |-> ("email" :> StrV(<<"n", "@", "x">>)) @@ ("createdAt" :> IntV(4 + k)),
   profile |-> [exists |-> TRUE,
                data |-> ("name" :> StrV(<<"N", "e", "w">>))
                         @@ ("designation" :> StrV(<<"C", "F", "O">>))
                         @@ ("expertise" :> StrV(<<"L", "a", "w">>))
                         @@ ("description" :> StrV(<<"M", "e", "n", "t", "o", "r">>))]]

\* The Dialog's onOpenChange, the trigger and the Cancel button.
setIsCreateDialogOpen(open) ==
  /\ route = "/admin/mentors"
  /\ open # isCreateDialogOpen
  /\ isCreateDialogOpen' = open
  /\ UNCHANGED <<isSubmitting, expandedMentor, submits, deletes>>
  /\ UNCHANGED <<docs, last, requests, fetchVars, otherVars>>

\* The form is submitted (its button is disabled while isSubmitting):
\* onSubmit up to the await of createMentorAction.
onSubmit ==
  /\ route = "/admin/mentors"
  /\ isCreateDialogOpen
  /\ ~isSubmitting
  /\ Len(submits) < MaxCalls
  /\ RoomForFetch
  /\ isSubmitting' = TRUE
  /\ submits' = Append(submits, [pc |-> "createMentorAction", toast |-> "none",
                                 fetch |-> 0])
  /\ UNCHANGED <<isCreateDialogOpen, expandedMentor, deletes>>
  /\ UNCHANGED <<docs, last, requests, fetchVars, otherVars>>

\* The rest of onSubmit with setIsSubmitting(false) at the end of the try
\* block instead of in a finally block.
CreateSettlesNoFinally(k, outcome) ==
  /\ route = "/admin/mentors"
  /\ k \in DOMAIN submits
  /\ submits[k].pc = "createMentorAction"
  /\ isSubmitting' = (outcome = "thrown")
  /\ IF outcome = "success"
       THEN /\ isCreateDialogOpen' = FALSE
            /\ CallFetchMentors
            /\ submits' = [submits EXCEPT ![k] = [pc |-> outcome,
                                                  toast |-> "Mentor Added",
                                                  fetch |-> Len(fetches) + 1]]
            /\ mentorsDb' = <<NewMentorDoc(k)>> \o mentorsDb
            /\ UNCHANGED <<searchQuery, mentors, filteredMentors>>
       ELSE /\ submits' = [submits EXCEPT
                             ![k].pc = outcome,
                             ![k].toast = IF outcome = "failure"
                                            THEN "Creation Failed" ELSE "Error"]
            /\ UNCHANGED <<isCreateDialogOpen, fetchVars>>
  /\ UNCHANGED <<expandedMentor, deletes>>
  /\ UNCHANGED <<docs, last, requests, otherVars>>

\* createMentorAction settles: the rest of onSubmit.
CreateSettles(k, outcome) ==
  /\ route = "/admin/mentors"
  /\ k \in DOMAIN submits
  /\ submits[k].pc = "createMentorAction"
  /\ isSubmitting' = FALSE
  /\ IF outcome = "success"
       THEN /\ isCreateDialogOpen' = FALSE
            /\ CallFetchMentors
            /\ submits' = [submits EXCEPT ![k] = [pc |-> outcome,
                                                  toast |-> "Mentor Added",
                                                  fetch |-> Len(fetches) + 1]]
            /\ mentorsDb' = <<NewMentorDoc(k)>> \o mentorsDb
            /\ UNCHANGED <<searchQuery, mentors, filteredMentors>>
       ELSE /\ submits' = [submits EXCEPT
                             ![k].pc = outcome,
                             ![k].toast = IF outcome = "failure"
                                            THEN "Creation Failed" ELSE "Error"]
            /\ UNCHANGED <<isCreateDialogOpen, fetchVars>>
  /\ UNCHANGED <<expandedMentor, deletes>>
  /\ UNCHANGED <<docs, last, requests, otherVars>>

\* handleDeleteMentor without the exit on a prompt answer other than "DELETE".
handleDeleteMentorAnyAnswer(j, userConfirmation) ==
  /\ route = "/admin/mentors"
  /\ j \in DOMAIN filteredMentors
  /\ Len(deletes) < MaxCalls
  /\ RoomForFetch
  /\ deletes' = Append(deletes, [id |-> filteredMentors[j].id,
                                 answer |-> userConfirmation,
                                 pc |-> "deleteMentorAction", toast |-> "none",
                                 fetch |-> 0])
  /\ UNCHANGED <<isSubmitting, isCreateDialogOpen, expandedMentor, submits>>
  /\ UNCHANGED <<docs, last, requests, fetchVars, otherVars>>

\* The delete button of a listed mentor: handleDeleteMentor up to its
\* return or to the await of deleteMentorAction.
handleDeleteMentor(j, userConfirmation) ==
  /\ route = "/admin/mentors"
  /\ j \in DOMAIN filteredMentors
  /\ Len(deletes) < MaxCalls
  /\ IF userConfirmation # sDELETE
       THEN deletes' = Append(deletes, [id |-> filteredMentors[j].id,
                                        answer |-> userConfirmation,
                                        pc |-> "returned",
                                        toast |-> IF userConfirmation # Null
                                                    THEN "Deletion Cancelled"
                                                    ELSE "none",
                                        fetch |-> 0])
       ELSE /\ RoomForFetch
            /\ deletes' = Append(deletes, [id |-> filteredMentors[j].id,
                                           answer |-> userConfirmation,
                                           pc |-> "deleteMentorAction",
                                           toast |-> "none", fetch |-> 0])
  /\ UNCHANGED <<isSubmitting, isCreateDialogOpen, expandedMentor, submits>>
  /\ UNCHANGED <<docs, last, requests, fetchVars, otherVars>>

\* deleteMentorAction settles: the rest of handleDeleteMentor.
DeleteSettles(k, outcome) ==
  /\ route = "/admin/mentors"
  /\ k \in DOMAIN deletes
  /\ deletes[k].pc = "deleteMentorAction"
  /\ IF outcome = "success"
       THEN /\ CallFetchMentors
            /\ deletes' = [deletes EXCEPT ![k].pc = outcome,
                                          ![k].toast = "Mentor Completely Deleted",
                                          ![k].fetch = Len(fetches) + 1]
            /\ mentorsDb' = SelectSeq(mentorsDb, LAMBDA m : m.id # deletes[k].id)
            /\ UNCHANGED <<searchQuery, mentors, filteredMentors>>
       ELSE /\ deletes' = [deletes EXCEPT
                             ![k].pc = outcome,
                             ![k].toast = IF outcome = "failure"
                                            THEN "Deletion Error" ELSE "Deletion Failed"]
            /\ UNCHANGED fetchVars
  /\ UNCHANGED <<isSubmitting, isCreateDialogOpen, expandedMentor, submits>>
  /\ UNCHANGED <<docs, last, requests, otherVars>>

\* toggleMentorExpansion collapsing whichever card is expanded.
toggleMentorExpansionCollapseAny(mentorId) ==
  /\ route = "/admin/mentors"
  /\ \E j \in DOMAIN filteredMentors : filteredMentors[j].id = mentorId
  /\ expandedMentor' = IF expandedMentor.t = "id"
                         THEN Null ELSE [t |-> "id", v |-> mentorId]
  /\ UNCHANGED <<isSubmitting, isCreateDialogOpen, submits, deletes>>
  /\ UNCHANGED <<docs, last, requests, fetchVars, otherVars>>

\* A click on the card of a listed mentor.
toggleMentorExpansion(mentorId) ==
  /\ route = "/admin/mentors"
  /\ \E j \in DOMAIN filteredMentors : filteredMentors[j].id = mentorId
  /\ expandedMentor' = IF expandedMentor.t = "id" /\ expandedMentor.v = mentorId
                         THEN Null ELSE [t |-> "id", v |-> mentorId]
  /\ UNCHANGED <<isSubmitting, isCreateDialogOpen, submits, deletes>>
  /\ UNCHANGED <<docs, last, requests, fetchVars, otherVars>>

MentorIds == {"m1", "m2", "m3", "m4"} \cup {NewMentorIds[k] : k \in DOMAIN NewMentorIds}

-----------------------------------------------------------------------------
(* The admin events page (app/admin/events/page.tsx).                      *)

\* Event documents, as the query orders them.
EventDocs ==
  <<[id |-> "e2", title |-> <<"D", "e", "m", "o">>, status |-> "published"],
    [id |-> "e1", title |-> <<"T", "a", "l", "k">>, status |-> "draft"]>>

\* Ids the store gives to the events created.
NewEventIds == <<"f1", "f2", "f3">>

\* What the admin types into the form.
FormValues == {[title |-> <<"F", "a", "i", "r">>, status |-> "published"],
               [title |-> <<>>, status |-> "draft"]}

\* eventFormSchema: title: z.string().min(1).
MinTitleLen == 1
eventFormSchema(data) ==
  /\ Len(data.title) >= MinTitleLen
  /\ data.status \in {"draft", "published", "archived"}

PendingEventWrites ==
  Cardinality({k \in DOMAIN eventSubmits : eventSubmits[k].pc = "addDoc"})
  + Cardinality({k \in DOMAIN eventDeletes : eventDeletes[k].pc = "deleteDoc"})

RoomForEventFetch == Len(eventFetches) + PendingEventWrites < MaxFetches

\* fetchEvents() up to the await of getDocs, given the page state it is
\* called in.
CallFetchEvents(page) ==
  /\ eventsPage' = [page EXCEPT !.loading = TRUE, !.error = Null]
  /\ eventFetches' = Append(eventFetches, [pc |-> "getDocs"])

\* fetchEvents is called on mount or by a Refresh button.
fetchEvents ==
  /\ route = "/admin/events"
  /\ RoomForEventFetch
  /\ CallFetchEvents(eventsPage)
  /\ UNCHANGED <<eventsDb, eventSubmits, eventDeletes>>
  /\ UNCHANGED <<docs, last, requests, fetchVars, dialogVars, route, homeVars>>

\* getDocs resolves: the rest of the try block, the finally block, and the
\* filter effect (searchQuery is '').
EventsGetDocsResolves(k) ==
  /\ route = "/admin/events"
  /\ k \in DOMAIN eventFetches
  /\ eventFetches[k].pc = "getDocs"
  /\ eventsPage' = [eventsPage EXCEPT !.events = eventsDb,
                                      !.filteredEvents = eventsDb,
                                      !.loading = FALSE]
  /\ eventFetches' = [eventFetches EXCEPT ![k].pc = "done"]
  /\ UNCHANGED <<eventsDb, eventSubmits, eventDeletes>>
  /\ UNCHANGED <<docs, last, requests, fetchVars, dialogVars, route, homeVars>>

\* getDocs rejects: the catch block and the finally block.
EventsGetDocsRejects(k) ==
  /\ route = "/admin/events"
  /\ k \in DOMAIN eventFetches
  /\ eventFetches[k].pc = "getDocs"
  /\ eventsPage' =
       [eventsPage EXCEPT
          !.error = StrV("Failed to load events. Please try again later."),
          !.loading = FALSE]
  /\ eventFetches' = [eventFetches EXCEPT ![k].pc = "failed"]
  /\ UNCHANGED <<eventsDb, eventSubmits, eventDeletes>>
  /\ UNCHANGED <<docs, last, requests, fetchVars, dialogVars, route, homeVars>>

\* The Dialog's onOpenChange, the trigger and the Cancel button.
EventsPage_setIsCreateDialogOpen(open) ==
  /\ route = "/admin/events"
  /\ open # eventsPage.isCreateDialogOpen
  /\ eventsPage' = [eventsPage EXCEPT !.isCreateDialogOpen = open]
  /\ UNCHANGED <<eventsDb, eventFetches, eventSubmits, eventDeletes>>
  /\ UNCHANGED <<docs, last, requests, fetchVars, dialogVars, route, homeVars>>

\* The admin edits the form (its inputs are disabled while isSubmitting).
EventsPage_formChange(values) ==
  /\ route = "/admin/events"
  /\ eventsPage.isCreateDialogOpen
  /\ ~eventsPage.isSubmitting
  /\ values # eventsPage.form
  /\ eventsPage' = [eventsPage EXCEPT !.form = values]
  /\ UNCHANGED <<eventsDb, eventFetches, eventSubmits, eventDeletes>>
  /\ UNCHANGED <<docs, last, requests, fetchVars, dialogVars, route, homeVars>>

\* The form is submitted and valid (the button is disabled while
\* isSubmitting): onSubmit up to the await of addDoc.
EventsPage_onSubmit ==
  /\ route = "/admin/events"
  /\ eventsPage.isCreateDialogOpen
  /\ ~eventsPage.isSubmitting
  /\ eventFormSchema(eventsPage.form)
  /\ Len(eventSubmits) < MaxCalls
  /\ RoomForEventFetch
  /\ eventsPage' = [eventsPage EXCEPT !.isSubmitting = TRUE]
  /\ eventSubmits' = Append(eventSubmits, [pc |-> "addDoc", data |-> eventsPage.form,
                                           fetch |-> 0])
  /\ UNCHANGED <<eventsDb, eventFetches, eventDeletes>>
  /\ UNCHANGED <<docs, last, requests, fetchVars, dialogVars, route, homeVars>>

\* The rest of onSubmit with the reset, the close and the refetch after
\* the try block.
AddDocSettlesThenCloses(k, outcome) ==
  /\ route = "/admin/events"
  /\ k \in DOMAIN eventSubmits
  /\ eventSubmits[k].pc = "addDoc"
  /\ CallFetchEvents([eventsPage EXCEPT !.form = defaultValues,
                                        !.isCreateDialogOpen = FALSE,
                                        !.isSubmitting = FALSE])
  /\ eventSubmits' = [eventSubmits EXCEPT ![k].pc = outcome,
                                          ![k].fetch = Len(eventFetches) + 1]
  /\ eventsDb' = IF outcome = "resolved"
                   THEN <<[id |-> NewEventIds[k], title |-> eventSubmits[k].data.title,
                           status |-> eventSubmits[k].data.status]>> \o eventsDb
                   ELSE eventsDb
  /\ UNCHANGED eventDeletes
  /\ UNCHANGED <<docs, last, requests, fetchVars, dialogVars, route, homeVars>>

\* addDoc settles: the rest of onSubmit.
AddDocSettles(k, outcome) ==
  /\ route = "/admin/events"
  /\ k \in DOMAIN eventSubmits
  /\ eventSubmits[k].pc = "addDoc"
  /\ IF outcome = "resolved"
       THEN /\ CallFetchEvents([eventsPage EXCEPT !.form = defaultValues,
                                                  !.isCreateDialogOpen = FALSE,
                                                  !.isSubmitting = FALSE])
            /\ eventSubmits' = [eventSubmits EXCEPT ![k].pc = outcome,
                                                    ![k].fetch = Len(eventFetches) + 1]
            /\ eventsDb' = <<[id |-> NewEventIds[k],
                              title |-> eventSubmits[k].data.title,
                              status |-> eventSubmits[k].data.status]>> \o eventsDb
       ELSE /\ eventsPage' = [eventsPage EXCEPT !.isSubmitting = FALSE]
            /\ eventSubmits' = [eventSubmits EXCEPT ![k].pc = outcome]
            /\ UNCHANGED <<eventsDb, eventFetches>>
  /\ UNCHANGED eventDeletes
  /\ UNCHANGED <<docs, last, requests, fetchVars, dialogVars, route, homeVars>>

\* handleDeleteEvent without the exit when confirm() returns false.
handleDeleteEventUnconfirmed(j, confirmed) ==
  /\ route = "/admin/events"
  /\ j \in DOMAIN eventsPage.filteredEvents
  /\ Len(eventDeletes) < MaxCalls
  /\ RoomForEventFetch
  /\ eventDeletes' = Append(eventDeletes, [id |-> eventsPage.filteredEvents[j].id,
                                           confirmed |-> confirmed,
                                           pc |-> "deleteDoc", fetch |-> 0])
  /\ UNCHANGED <<eventsDb, eventsPage, eventFetches, eventSubmits>>
  /\ UNCHANGED <<docs, last, requests, fetchVars, dialogVars, route, homeVars>>

\* The delete button of a listed event: handleDeleteEvent up to its return
\* or to the await of deleteDoc.
handleDeleteEvent(j, confirmed) ==
  /\ route = "/admin/events"
  /\ j \in DOMAIN eventsPage.filteredEvents
  /\ Len(eventDeletes) < MaxCalls
  /\ confirmed => RoomForEventFetch
  /\ eventDeletes' = Append(eventDeletes, [id |-> eventsPage.filteredEvents[j].id,
                                           confirmed |-> confirmed,
                                           pc |-> IF confirmed THEN "deleteDoc"
                                                               ELSE "returned",
                                           fetch |-> 0])
  /\ UNCHANGED <<eventsDb, eventsPage, eventFetches, eventSubmits>>
  /\ UNCHANGED <<docs, last, requests, fetchVars, dialogVars, route, homeVars>>

\* deleteDoc settles: the rest of handleDeleteEvent.
DeleteDocSettles(k, outcome) ==
  /\ route = "/admin/events"
  /\ k \in DOMAIN eventDeletes
  /\ eventDeletes[k].pc = "deleteDoc"
  /\ IF outcome = "resolved"
       THEN /\ CallFetchEvents(eventsPage)
            /\ eventDeletes' = [eventDeletes EXCEPT ![k].pc = outcome,
                                                    ![k].fetch = Len(eventFetches) + 1]
            /\ eventsDb' = SelectSeq(eventsDb, LAMBDA e : e.id # eventDeletes[k].id)
       ELSE /\ eventDeletes' = [eventDeletes EXCEPT ![k].pc = outcome]
            /\ UNCHANGED <<eventsDb, eventsPage, eventFetches>>
  /\ UNCHANGED eventSubmits
  /\ UNCHANGED <<docs, last, requests, fetchVars, dialogVars, route, homeVars>>

-----------------------------------------------------------------------------
(* The admin pages under the operations of the administrator.  One page is *)
(* shown.                                                                  *)

MentorDoc(id) == CHOOSE d \in MentorDocs : d.id = id

InitPages(mentorList) ==
  /\ docs = <<>>
  /\ last = NoRequest
  /\ requests = 0
  /\ route \in {"/admin/mentors", "/admin/events"}
  /\ mentorsDb = mentorList
  /\ PageInit
  /\ DialogInit
  /\ eventsDb = EventDocs
  /\ EventsInit
  /\ localStorage = Null
  /\ HomeInit

InitAdmin == InitPages(<<MentorDoc("m3")>>)

InitExpand == InitPages(<<MentorDoc("m3"), MentorDoc("m1")>>)

\* Loading the lists.
NextFetch ==
  \/ fetchMentors
  \/ \E k \in 1..MaxFetches : GetDocsResolves(k)
  \/ \E k \in 1..MaxFetches : GetDocResolves(k)
  \/ \E k \in 1..MaxFetches, code \in {"permission-denied", "unavailable"} :
       AwaitRejects(k, code)
  \/ fetchEvents
  \/ \E k \in 1..MaxFetches : EventsGetDocsResolves(k)
  \/ \E k \in 1..MaxFetches : EventsGetDocsRejects(k)

\* Creating a mentor or an event.
NextCreate ==
  \/ NextFetch
  \/ \E open \in BOOLEAN : setIsCreateDialogOpen(open)
  \/ onSubmit
  \/ \E k \in 1..MaxCalls, outcome \in Outcomes : CreateSettles(k, outcome)
  \/ \E open \in BOOLEAN : EventsPage_setIsCreateDialogOpen(open)
  \/ \E values \in FormValues : EventsPage_formChange(values)
  \/ EventsPage_onSubmit
  \/ \E k \in 1..MaxCalls, outcome \in {"resolved", "rejected"} : AddDocSettles(k, outcome)

SpecCreate == InitAdmin /\ [][NextCreate]_vars

\* A server action or a write that is awaited settles.
FairCreate ==
  /\ SpecCreate
  /\ WF_vars(\E k \in 1..MaxCalls, outcome \in Outcomes : CreateSettles(k, outcome))
  /\ WF_vars(\E k \in 1..MaxCalls, outcome \in {"resolved", "rejected"} :
               AddDocSettles(k, outcome))

\* Deleting a mentor or an event.
NextDelete ==
  \/ NextFetch
  \/ \E j \in 1..(MaxMentors + MaxCalls), userConfirmation \in PromptAnswers :
       handleDeleteMentor(j, userConfirmation)
  \/ \E k \in 1..MaxCalls, outcome \in Outcomes : DeleteSettles(k, outcome)
  \/ \E j \in 1..(MaxMentors + MaxCalls), confirmed \in BOOLEAN :
       handleDeleteEvent(j, confirmed)
  \/ \E k \in 1..MaxCalls, outcome \in {"resolved", "rejected"} :
       DeleteDocSettles(k, outcome)

SpecDelete == InitAdmin /\ [][NextDelete]_vars

\* Searching the mentors and expanding their cards.
NextExpand ==
  \/ NextMentors
  \/ \E mentorId \in MentorIds : toggleMentorExpansion(mentorId)

SpecExpand == InitExpand /\ [][NextExpand]_vars

-----------------------------------------------------------------------------
(* The admin pages: loading flags, create and delete flows, expansion.     *)

MentorsFetchInFlight == \E k \in DOMAIN fetches : fetches[k].pc \in {"getDocs", "getDoc"}
EventsFetchInFlight == \E k \in DOMAIN eventFetches : eventFetches[k].pc = "getDocs"

\* C23: the loading flag of the mentors page and of the events page is
\* true in every state in which a fetch of that page is in flight.
C23_LoadingWhileFetchInFlight ==
  /\ MentorsFetchInFlight => isLoading
  /\ EventsFetchInFlight => eventsPage.loading

CreatePending == \E k \in DOMAIN submits : submits[k].pc = "createMentorAction"
AddDocPending == \E k \in DOMAIN eventSubmits : eventSubmits[k].pc = "addDoc"

\* C24: on both pages isSubmitting is true while the create call of
\* onSubmit is pending, and is false again once the call has settled,
\* whatever its outcome.
C24_SubmittingUntilSettled ==
  /\ [](CreatePending => isSubmitting)
  /\ [](AddDocPending => eventsPage.isSubmitting)
  /\ isSubmitting ~> (~isSubmitting /\ ~CreatePending)
  /\ eventsPage.isSubmitting ~> (~eventsPage.isSubmitting /\ ~AddDocPending)

C24_Witness ==
  /\ \E k \in DOMAIN submits : submits[k].pc = "thrown"
  /\ ~isSubmitting
  /\ isCreateDialogOpen

\* What onSubmit of the events page leaves alone in a step.
SubmitKeeps ==
  /\ eventsPage'.isCreateDialogOpen = eventsPage.isCreateDialogOpen
  /\ eventsPage'.form = eventsPage.form
  /\ eventsPage'.events = eventsPage.events
  /\ eventsPage'.error = eventsPage.error
  /\ eventFetches' = eventFetches

\* C25: when addDoc rejects, onSubmit of the events page leaves the dialog
\* open state, the form values, the events list and the error state as they
\* are and starts no fetch; it closes the dialog, resets the form and
\* starts fetchEvents in the step in which addDoc resolves, and in no
\* other.
C25_RejectedCreateKeepsDialog ==
  [][/\ Len(eventSubmits') > Len(eventSubmits) => SubmitKeeps
     /\ \A k \in DOMAIN eventSubmits :
          /\ eventSubmits[k].pc = "addDoc" /\ eventSubmits'[k].pc = "rejected"
               => SubmitKeeps
          /\ eventSubmits[k].pc = "addDoc" /\ eventSubmits'[k].pc = "resolved"
               => /\ ~eventsPage'.isCreateDialogOpen
                  /\ eventsPage'.form = defaultValues
                  /\ eventFetches' = Append(eventFetches, [pc |-> "getDocs"])
                  /\ eventSubmits'[k].fetch = Len(eventFetches')
          /\ eventSubmits'[k].fetch # 0 => eventSubmits'[k].pc = "resolved"]_vars

C25_Witness ==
  /\ \E k \in DOMAIN eventSubmits : eventSubmits[k].pc = "rejected"
  /\ eventsPage.isCreateDialogOpen
  /\ eventsPage.form # defaultValues
  /\ ~eventsPage.isSubmitting
  /\ eventFetches = <<>>

\* C26: handleDeleteMentor calls deleteMentorAction only when the prompt
\* returned "DELETE"; for any other answer it returns without a delete and
\* without a fetch, having shown 'Deletion Cancelled' when the answer is a
\* string and nothing when it is null; it starts fetchMentors only when
\* deleteMentorAction reported success.
C26_DeleteOnlyOnExactAnswer ==
  \A k \in DOMAIN deletes :
    LET d == deletes[k] IN
    /\ d.pc # "returned" => d.answer = sDELETE
    /\ d.answer # sDELETE =>
         /\ d.pc = "returned"
         /\ d.fetch = 0
         /\ d.toast = IF d.answer.t = "string" THEN "Deletion Cancelled" ELSE "none"
    /\ d.fetch # 0 <=> d.pc = "success"
    /\ d.fetch # 0 => d.fetch \in DOMAIN fetches

C26_Witness ==
  \E k \in DOMAIN deletes :
    /\ deletes[k].pc = "success"
    /\ deletes[k].fetch \in DOMAIN fetches
    /\ fetches[deletes[k].fetch].pc = "done"
    /\ \A j \in DOMAIN mentors : mentors[j].id # deletes[k].id

\* C27: handleDeleteEvent calls deleteDoc only when confirm() returned true
\* and starts fetchEvents only when deleteDoc resolved; when the user
\* declines or deleteDoc rejects, the step leaves the events list alone and
\* starts no fetch.
C27_DeleteEventOnlyConfirmed ==
  [][\A k \in DOMAIN eventDeletes' :
       LET d == eventDeletes'[k] IN
       /\ d.pc # "returned" => d.confirmed
       /\ ~d.confirmed => d.pc = "returned" /\ d.fetch = 0
       /\ d.fetch # 0 <=> d.pc = "resolved"
       /\ (k \notin DOMAIN eventDeletes /\ ~d.confirmed)
            => eventsPage' = eventsPage /\ eventFetches' = eventFetches
       /\ (k \in DOMAIN eventDeletes /\ eventDeletes[k].pc = "deleteDoc"
             /\ d.pc = "rejected")
            => eventsPage' = eventsPage /\ eventFetches' = eventFetches
       /\ (k \notin DOMAIN eventDeletes /\ d.confirmed)
            => eventFetches' = eventFetches]_vars

C27_Witness ==
  \E k \in DOMAIN eventDeletes :
    /\ eventDeletes[k].pc = "rejected"
    /\ eventDeletes[k].confirmed
    /\ \E j \in DOMAIN eventsPage.events : eventsPage.events[j].id = eventDeletes[k].id
    /\ Len(eventFetches) = 1

\* C28: expandedMentor is null or one mentor id; toggleMentorExpansion(id)
\* sets it to null when it was id and to id otherwise, so that two toggles
\* of one id from null give null again; no other step changes it.
C28_ToggleExpansion ==
  [][/\ expandedMentor' # expandedMentor
          => \E mentorId \in MentorIds : toggleMentorExpansion(mentorId)
     /\ \A mentorId \in MentorIds :
          toggleMentorExpansion(mentorId) =>
            /\ expandedMentor = Null => expandedMentor' = [t |-> "id", v |-> mentorId]
            /\ expandedMentor = [t |-> "id", v |-> mentorId] => expandedMentor' = Null
            /\ expandedMentor.t = "id" /\ expandedMentor.v # mentorId
                 => expandedMentor' = [t |-> "id", v |-> mentorId]]_vars

C28_Witness ==
  /\ expandedMentor.t = "id"
  /\ \E j \in DOMAIN filteredMentors : filteredMentors[j].id = expandedMentor.v
  /\ Len(filteredMentors) = 2

-----------------------------------------------------------------------------
(* The home page (app/page.tsx).                                           *)

\* handleOpenApplicationForm calls a behaviour makes.
MaxClicks == 2

sOffCampus == StrV("off-campus")

\* localStorage.getItem('applicantCampusStatus'): null when nothing is
\* stored, else the string stored.
CampusStatuses == {Null, StrV("campus"), sOffCampus, StrV("Off-Campus")}

ExternalFormUrl ==
  "https://docs.google.com/forms/d/1WNPpTVLahffQ_n3rdDbnsVFjcXrKqslVFyk4Lmib2uo/viewform?edit_requested=true"

InitHome ==
  /\ docs = <<>>
  /\ last = NoRequest
  /\ requests = 0
  /\ route = "/"
  /\ mentorsDb = <<>>
  /\ PageInit
  /\ DialogInit
  /\ eventsDb = <<>>
  /\ EventsInit
  /\ localStorage \in CampusStatuses
  /\ HomeInit

\* The campus status is stored or removed (by the hero section).
setApplicantCampusStatus(status) ==
  /\ route = "/"
  /\ href = "/"
  /\ status # localStorage
  /\ localStorage' = status
  /\ UNCHANGED <<homePage, href, applyClicks>>
  /\ UNCHANGED <<docs, last, requests, fetchVars, dialogVars, route, eventsVars>>

handleSplashComplete ==
  /\ route = "/"
  /\ href = "/"
  /\ ~homePage.showMainContent
  /\ homePage' = [homePage EXCEPT !.showMainContent = TRUE]
  /\ UNCHANGED <<localStorage, href, applyClicks>>
  /\ UNCHANGED <<docs, last, requests, fetchVars, dialogVars, route, eventsVars>>

\* onOpenChange of ApplicationFormDialog.
setIsApplicationFormOpen(open) ==
  /\ route = "/"
  /\ href = "/"
  /\ open # homePage.isApplicationFormOpen
  /\ homePage' = [homePage EXCEPT !.isApplicationFormOpen = open]
  /\ UNCHANGED <<localStorage, href, applyClicks>>
  /\ UNCHANGED <<docs, last, requests, fetchVars, dialogVars, route, eventsVars>>

\* handleOpenApplicationForm without the off-campus branch.
handleOpenApplicationFormAlways ==
  /\ route = "/"
  /\ href = "/"
  /\ Len(applyClicks) < MaxClicks
  /\ homePage' = [homePage EXCEPT !.isApplicationFormOpen = TRUE]
  /\ applyClicks' = Append(applyClicks,
                           [stored |-> localStorage,
                            wasOpen |-> homePage.isApplicationFormOpen,
                            open |-> TRUE, href |-> href])
  /\ UNCHANGED <<localStorage, href>>
  /\ UNCHANGED <<docs, last, requests, fetchVars, dialogVars, route, eventsVars>>

\* An Apply button (navbar, hero section) is clicked.
handleOpenApplicationForm ==
  /\ route = "/"
  /\ href = "/"
  /\ Len(applyClicks) < MaxClicks
  /\ LET campusStatusFromStorage == localStorage IN
     IF campusStatusFromStorage = sOffCampus
       THEN /\ href' = ExternalFormUrl
            /\ UNCHANGED homePage
       ELSE /\ homePage' = [homePage EXCEPT !.isApplicationFormOpen = TRUE]
            /\ UNCHANGED href
  /\ applyClicks' = Append(applyClicks,
                           [stored |-> localStorage,
                            wasOpen |-> homePage.isApplicationFormOpen,
                            open |-> homePage'.isApplicationFormOpen,
                            href |-> href'])
  /\ UNCHANGED localStorage
  /\ UNCHANGED <<docs, last, requests, fetchVars, dialogVars, route, eventsVars>>

NextHome ==
  \/ \E status \in CampusStatuses : setApplicantCampusStatus(status)
  \/ handleSplashComplete
  \/ \E open \in BOOLEAN : setIsApplicationFormOpen(open)
  \/ handleOpenApplicationForm

SpecHome == InitHome /\ [][NextHome]_vars

\* C29: a call of handleOpenApplicationForm with 'applicantCampusStatus'
\* equal to "off-campus" redirects to the external form and leaves
\* isApplicationFormOpen as it was; with any other stored value, or none,
\* it sets isApplicationFormOpen to true and does not redirect.
C29_OffCampusNeverOpensForm ==
  \A k \in DOMAIN applyClicks :
    LET click == applyClicks[k] IN
    IF click.stored = sOffCampus
      THEN click.href = ExternalFormUrl /\ click.open = click.wasOpen
      ELSE click.href = "/" /\ click.open

C29_Witness ==
  /\ \E k \in DOMAIN applyClicks :
       /\ applyClicks[k].stored = sOffCampus
       /\ ~applyClicks[k].wasOpen
  /\ \E k \in DOMAIN applyClicks : applyClicks[k].stored = StrV("Off-Campus")
  /\ href = ExternalFormUrl
  /\ ~homePage.isApplicationFormOpen

====
